---- MODULE Spec2Model ----
(***************************************************************************)
(* A model of scikit-bold's region indexer (skbold/transformers/           *)
(* roi_indexer.py) and results aggregator (skbold/utils/mvp_results.py).   *)
(*                                                                         *)
(* Five specifications share the variables below:                          *)
(*   SpecRoi    RoiIndexer.transform on drawn masks and data               *)
(*   SpecCache  RoiIndexer.__init__ against a small file system            *)
(*   SpecFolds  MvpResults*.update / compute_scores, metric bookkeeping    *)
(*   SpecPipe   one MvpResults*.update over every pipeline and mode        *)
(*   Spec       MvpResults*.update over several folds, voxel-value map     *)
(* Each specification holds the variables of the other components fixed.   *)
(***************************************************************************)
EXTENDS Integers, Sequences, FiniteSets, TLC

VARIABLES
    \* ---- RoiIndexer.transform
    orig_mask,       \* self.orig_mask: boolean vector over the raveled volume
    mask_data,       \* nib.load(self.mask).get_data(), raveled
    mask_threshold,  \* self.mask_threshold
    X,               \* the argument of transform: rows x (true entries of orig_mask)
    X_new,           \* the value transform returns
    roi_pc,          \* "ready" before transform has run, "done" after
    \* ---- RoiIndexer.__init__
    fs_dirs,         \* directories that exist
    fs_files,        \* files that exist
    self_mask,       \* self.mask of the object constructed last
    conv_calls,      \* history: calls of convert2epi per <<mask, container>>
    built,           \* history: constructions per <<mask, container>>
    n_built,         \* history: number of constructions so far
    \* ---- MvpResults
    variant,         \* "classification" or "regression"
    fs,              \* self.fs, the feature-scoring mode (a sequence of characters)
    n_iter,          \* self.n_iter
    y,               \* self.y, the label/target vector
    iter,            \* self.iter
    accuracy,        \* self.accuracy
    precision,       \* self.precision
    recall,          \* self.recall
    confmat,         \* self.confmat
    R2,              \* self.R2
    mse,             \* self.mse: an array until the first update, a scalar after
    n_vox,           \* self.n_vox
    voxel_values,    \* self.voxel_values
    df,              \* self.df, the report of compute_scores
    printed,         \* what compute_scores printed last
    err,             \* exception that ended the last update call ("none" if it returned)
    call,            \* history: the arguments and pre-state of the last update call
    log              \* history: what every returned update call computed, in order

roiVars   == <<orig_mask, mask_data, mask_threshold, X, X_new, roi_pc>>
cacheVars == <<fs_dirs, fs_files, self_mask, conv_calls, built, n_built>>
aggVars   == <<variant, fs, n_iter, y, iter, accuracy, precision, recall, confmat,
               R2, mse, n_vox, voxel_values, df, printed, err, call, log>>
vars      == <<roiVars, cacheVars, aggVars>>

(***************************************************************************)
(* Bounds of the model.                                                    *)
(***************************************************************************)
NGeom == 3         \* voxels of the raveled volume in SpecRoi
MaxBuilt == 3      \* constructions of RoiIndexer in SpecCache
MaxIter == 2       \* largest fold count n_iter an aggregator is built with
NSamples == 3      \* samples (rows of mvp.X, entries of mvp.y)
NVox == 3          \* whole-brain voxels (columns of mvp.X)

(***************************************************************************)
(* Generic helpers.                                                        *)
(***************************************************************************)
RECURSIVE SumSeq(_)
SumSeq(s) == IF s = <<>> THEN 0 ELSE Head(s) + SumSeq(Tail(s))

Range(s) == {s[i] : i \in 1..Len(s)}

\* numpy: ndarray.astype(int) on a boolean
AsInt(b) == IF b THEN 1 ELSE 0

\* numpy boolean-mask indexing a[m]: the entries of a at the true positions
\* of m, in order (a and m have the same length).
RECURSIVE BoolIndex(_, _)
BoolIndex(a, m) ==
    IF a = <<>> THEN <<>>
    ELSE IF Head(m) THEN <<Head(a)>> \o BoolIndex(Tail(a), Tail(m))
         ELSE BoolIndex(Tail(a), Tail(m))

(***************************************************************************)
(* RoiIndexer.transform                                                    *)
(***************************************************************************)
\* roi_idx = nib.load(self.mask).get_data() > self.mask_threshold
RoiIdx(data, thr) == [i \in 1..Len(data) |-> data[i] > thr]

\* overlap = roi_idx.astype(int).ravel() + self.orig_mask.astype(int)
Overlap(roi_idx, mask) ==
    [i \in 1..Len(mask) |-> AsInt(roi_idx[i]) + AsInt(mask[i])]

OverlapIndexAny(roi_idx, mask) ==
    BoolIndex([i \in 1..Len(mask) |-> Overlap(roi_idx, mask)[i] >= 1], mask)

\* (overlap == 2)[self.orig_mask]
OverlapIndex(roi_idx, mask) ==
    BoolIndex([i \in 1..Len(mask) |-> Overlap(roi_idx, mask)[i] = 2], mask)

\* X[:, (overlap == 2)[self.orig_mask]]
TransformResult(Xin, data, thr, mask) ==
    LET sel == OverlapIndex(RoiIdx(data, thr), mask)
    IN  [r \in 1..Len(Xin) |-> BoolIndex(Xin[r], sel)]

MaskValues == 0..2
Thresholds == {0, 1}
BoolVectors(n) == [1..n -> BOOLEAN]
NTrue(m) == Cardinality({i \in 1..Len(m) : m[i]})

\* Inputs of transform: a matrix whose entries name their row and column, and
\* one with repeated entries; two rows each.
XChoices(k) == { [r \in 1..2 |-> [c \in 1..k |-> 10 * r + c]],
                 [r \in 1..2 |-> [c \in 1..k |-> c % 2]] }

Transform ==
    /\ roi_pc = "ready"
    /\ X_new' = TransformResult(X, mask_data, mask_threshold, orig_mask)
    /\ roi_pc' = "done"
    /\ UNCHANGED <<orig_mask, mask_data, mask_threshold, X>>
    /\ UNCHANGED <<cacheVars, aggVars>>

\* Before compute_scores has run, and before the first update call.
NoReport == [none |-> TRUE]
NoCall == [test_idx |-> <<>>, y_pred |-> <<>>, values |-> [kind |-> "None"],
           idx |-> [given |-> FALSE, mask |-> <<>>], i |-> -1]

\* The variables of a component no specification at hand exercises.
RoiIdle ==
    /\ orig_mask = <<>> /\ mask_data = <<>> /\ mask_threshold = 0
    /\ X = <<>> /\ X_new = <<>> /\ roi_pc = "idle"

CacheIdle ==
    /\ fs_dirs = {} /\ fs_files = {} /\ self_mask = <<>>
    /\ conv_calls = <<>> /\ built = <<>> /\ n_built = 0

AggIdle ==
    /\ variant = "none" /\ fs = <<>> /\ n_iter = 0 /\ y = <<>> /\ iter = 0
    /\ accuracy = <<>> /\ precision = <<>> /\ recall = <<>> /\ confmat = <<>>
    /\ R2 = <<>> /\ mse = <<>> /\ n_vox = <<>> /\ voxel_values = <<>>
    /\ df = NoReport /\ printed = NoReport /\ err = "none" /\ call = NoCall
    /\ log = <<>>

InitRoi ==
    /\ orig_mask \in BoolVectors(NGeom)
    /\ mask_data \in [1..NGeom -> MaskValues]
    /\ mask_threshold \in Thresholds
    /\ X \in XChoices(NTrue(orig_mask))
    /\ X_new = <<>>
    /\ roi_pc = "ready"
    /\ CacheIdle /\ AggIdle

NextRoi == Transform

SpecRoi == InitRoi /\ [][NextRoi]_vars

\* The k-th smallest element of a set of integers.
Kth(S, k) == CHOOSE i \in S : Cardinality({j \in S : j < i}) = k - 1

Dirname(p) == SubSeq(p, 1, Len(p) - 1)
Basename(p) == p[Len(p)]
Join(a, b) == a \o b

\* os.makedirs(d): d and every missing ancestor of it
Makedirs(d, dirs) == dirs \cup {SubSeq(d, 1, k) : k \in 1..Len(d)}

\* glob.glob(path) for a path without wildcards: the path if it exists
Glob(path, files) == IF path \in files THEN <<path>> ELSE <<>>

\* convert2epi(mask, reg_dir, epi_dir): the coordinate-conversion collaborator.
\* It returns the list of files it wrote; it stores the converted mask in
\* epi_dir under the mask's base name.
Convert2epi(mask, reg_dir, epi_dir) == <<Join(epi_dir, <<Basename(mask)>>)>>

\* The pattern container's cache directory for a mask.
EpiDir(mvp, mask) ==
    Join(Dirname(mvp.directory), <<"epi_masks", Basename(Dirname(mask))>>)

ConstructAlwaysConverts(mvp, mask, dirs, files) ==
    IF mvp.ref_space = "epi"
    THEN LET epi_dir == EpiDir(mvp, mask)
             out == Convert2epi(mask, Join(mvp.directory, <<"reg">>), epi_dir)
         IN  [mask |-> out[1], dirs |-> Makedirs(epi_dir, dirs),
              files |-> files \cup Range(out), converted |-> TRUE]
    ELSE [mask |-> mask, dirs |-> dirs, files |-> files, converted |-> FALSE]

\* The constructor's effect: self.mask, the file system after it, and whether
\* it called convert2epi.
Construct(mvp, mask, dirs, files) ==
    IF mvp.ref_space = "epi"
    THEN LET epi_dir == EpiDir(mvp, mask)
             dirs1 == IF epi_dir \notin dirs THEN Makedirs(epi_dir, dirs) ELSE dirs
             epi_name == Basename(mask)
             epi_exists == Glob(Join(epi_dir, <<epi_name>>), files)
         IN  IF epi_exists # <<>>
             THEN [mask |-> epi_exists[1], dirs |-> dirs1, files |-> files,
                   converted |-> FALSE]
             ELSE LET reg_dir == Join(mvp.directory, <<"reg">>)
                      out == Convert2epi(mask, reg_dir, epi_dir)
                  IN  [mask |-> out[1], dirs |-> dirs1,
                       files |-> files \cup Range(out), converted |-> TRUE]
    ELSE [mask |-> mask, dirs |-> dirs, files |-> files, converted |-> FALSE]

Mvps == { [directory |-> <<"data", "sub1">>, ref_space |-> "epi"],
          [directory |-> <<"data", "sub1">>, ref_space |-> "mni"],
          [directory |-> <<"study", "sub1">>, ref_space |-> "epi"] }
Masks == { <<"rois", "left", "amygdala.nii.gz">>,
           <<"rois", "right", "amygdala.nii.gz">>,
           <<"rois", "left", "insula.nii.gz">> }
Pairs == Masks \X Mvps
CacheDirs == {EpiDir(mvp, mask) : mvp \in Mvps, mask \in Masks}
CacheFiles == {Join(EpiDir(mvp, mask), <<Basename(mask)>>) : mvp \in Mvps, mask \in Masks}

NewRoiIndexer(mvp, mask) ==
    /\ n_built < MaxBuilt
    /\ LET r == Construct(mvp, mask, fs_dirs, fs_files)
       IN  /\ self_mask' = r.mask
           /\ fs_dirs' = r.dirs
           /\ fs_files' = r.files
           /\ conv_calls' = [conv_calls EXCEPT ![<<mask, mvp>>] = @ + AsInt(r.converted)]
    /\ built' = [built EXCEPT ![<<mask, mvp>>] = @ + 1]
    /\ n_built' = n_built + 1
    /\ UNCHANGED <<roiVars, aggVars>>

\* The file system before the first construction: each cache directory is
\* absent or present, a present one holds any of the cached masks.
InitCache ==
    /\ \E ds \in SUBSET CacheDirs :
          /\ fs_dirs = UNION {Makedirs(d, {}) : d \in ds}
          /\ fs_files \in SUBSET {f \in CacheFiles : Dirname(f) \in ds}
    /\ self_mask = <<>>
    /\ conv_calls = [k \in Pairs |-> 0]
    /\ built = [k \in Pairs |-> 0]
    /\ n_built = 0
    /\ RoiIdle /\ AggIdle

NextCache == \E mvp \in Mvps, mask \in Masks : NewRoiIndexer(mvp, mask)

SpecCache == InitCache /\ [][NextCache]_vars

\* C8: a construction for a container that is not in 'epi' space keeps the mask
\* path, creates no directory and never converts; one for an 'epi' container
\* creates the cache directory when absent, converts exactly when the cache
\* holds no file of the mask's base name, and otherwise uses the cached file;
\* so no <<mask, container>> is ever converted twice.
C8_ConstructionCaches ==
    [][ \A k \in Pairs :
          built'[k] = built[k] + 1 =>
            LET mask == k[1]
                mvp == k[2]
                dir == EpiDir(mvp, mask)
                cached == Join(dir, <<Basename(mask)>>)
            IN  /\ mvp.ref_space # "epi" =>
                      /\ self_mask' = mask
                      /\ fs_dirs' = fs_dirs /\ fs_files' = fs_files
                      /\ conv_calls' = conv_calls
                /\ mvp.ref_space = "epi" =>
                      /\ dir \in fs_dirs'
                      /\ dir \in fs_dirs => fs_dirs' = fs_dirs
                      /\ conv_calls'[k] = conv_calls[k] + 1 <=> cached \notin fs_files
                      /\ cached \in fs_files =>
                            /\ self_mask' = cached /\ conv_calls' = conv_calls
                            /\ fs_files' = fs_files
                /\ \A j \in Pairs : conv_calls'[j] <= 1 ]_vars

\* The same mask was built twice for an 'epi' container whose cache was empty:
\* the first construction converted, the second used the cached file.
C8_Witness ==
    \E k \in Pairs :
        /\ k[2].ref_space = "epi"
        /\ built[k] = 2
        /\ conv_calls[k] = 1
        /\ self_mask = Join(EpiDir(k[2], k[1]), <<Basename(k[1])>>)

(***************************************************************************)
(* Numbers of the aggregator are exact rationals <<numerator, denominator>> *)
(* in lowest terms with a positive denominator; <<0, 0>> is NaN.           *)
(***************************************************************************)
Abs(a) == IF a < 0 THEN -a ELSE a

RECURSIVE Gcd(_, _)
Gcd(a, b) == IF b = 0 THEN a ELSE Gcd(b, a % b)

Q(n, d) ==
    IF d = 0 THEN <<0, 0>>
    ELSE LET g == Gcd(Abs(n), Abs(d))
             sg == IF d < 0 THEN -1 ELSE 1
         IN  <<sg * (n \div g), sg * (d \div g)>>

QInt(n) == <<n, 1>>
Zero == QInt(0)
QAdd(a, b) == Q(a[1] * b[2] + b[1] * a[2], a[2] * b[2])
QMul(a, b) == Q(a[1] * b[1], a[2] * b[2])

RECURSIVE QSum(_)
QSum(s) == IF s = <<>> THEN Zero ELSE QAdd(Head(s), QSum(Tail(s)))

\* numpy ndarray.mean() of a 1-D array
QMean(s) == QMul(QSum(s), Q(1, Len(s)))

\* np.zeros(n), np.zeros((n, m))
Zeros(n) == [k \in 1..n |-> Zero]
Zeros2(n, m) == [k \in 1..n |-> Zeros(m)]

(***************************************************************************)
(* sklearn.metrics, as the update methods call them.  Labels and targets   *)
(* are integers.                                                           *)
(***************************************************************************)
Count(S) == Cardinality(S)
Pos(v) == 1..Len(v)

\* np.unique(a): the sorted distinct entries
Unique(a) == LET S == Range(a) IN [k \in 1..Cardinality(S) |-> Kth(S, k)]

\* accuracy_score(y_true, y_pred)
accuracy_score(yt, yp) == Q(Count({k \in Pos(yt) : yt[k] = yp[k]}), Len(yt))

\* confusion_matrix(y_true, y_pred): rows and columns are the sorted labels
\* that occur in y_true or y_pred.
confusion_matrix(yt, yp) ==
    LET labels == Unique(yt \o yp)
    IN  [a \in Pos(labels) |-> [b \in Pos(labels) |->
            QInt(Count({k \in Pos(yt) : yt[k] = labels[a] /\ yp[k] = labels[b]}))]]

\* precision_score(y_true, y_pred, average='macro'); a label never predicted
\* scores 0.
precision_score(yt, yp) ==
    LET labels == Unique(yt \o yp)
        tp(l) == Count({k \in Pos(yt) : yt[k] = l /\ yp[k] = l})
        pp(l) == Count({k \in Pos(yt) : yp[k] = l})
    IN  QMean([a \in Pos(labels) |->
                 IF pp(labels[a]) = 0 THEN Zero ELSE Q(tp(labels[a]), pp(labels[a]))])

\* recall_score(y_true, y_pred, average='macro'); a label absent from y_true
\* scores 0.
recall_score(yt, yp) ==
    LET labels == Unique(yt \o yp)
        tp(l) == Count({k \in Pos(yt) : yt[k] = l /\ yp[k] = l})
        ap(l) == Count({k \in Pos(yt) : yt[k] = l})
    IN  QMean([a \in Pos(labels) |->
                 IF ap(labels[a]) = 0 THEN Zero ELSE Q(tp(labels[a]), ap(labels[a]))])

\* mean_squared_error(y_true, y_pred)
mean_squared_error(yt, yp) ==
    Q(SumSeq([k \in Pos(yt) |-> (yt[k] - yp[k]) * (yt[k] - yp[k])]), Len(yt))

\* r2_score(y_true, y_pred) = 1 - SS_res / SS_tot; with SS_tot = 0 it is 1 for
\* a perfect prediction and 0 otherwise.  Scaled by Len^2 to stay integral.
r2_score(yt, yp) ==
    LET n == Len(yt)
        res == SumSeq([k \in Pos(yt) |-> (yt[k] - yp[k]) * (yt[k] - yp[k])])
        tot == n * SumSeq([k \in Pos(yt) |-> yt[k] * yt[k]]) - SumSeq(yt) * SumSeq(yt)
    IN  IF tot = 0 THEN (IF res = 0 THEN QInt(1) ELSE Zero)
        ELSE Q(tot - n * res, tot)

(***************************************************************************)
(* numpy arrays: a shape and the entries in row-major order.               *)
(***************************************************************************)
Arr1(v) == [shape |-> <<Len(v)>>, data |-> v]
Arr2(rows) == [shape |-> <<Len(rows), Len(rows[1])>>,
               data |-> LET RECURSIVE Flat(_)
                            Flat(r) == IF r = <<>> THEN <<>> ELSE Head(r) \o Flat(Tail(r))
                        IN  Flat(rows)]
Size(a) == Len(a.data)
NotOne(d) == d # 1
\* np.squeeze(a): the axes of length one removed
Squeeze(a) == [shape |-> SelectSeq(a.shape, NotOne), data |-> a.data]

\* np.concatenate(rows of equally long 2-D arrays).mean(axis=0)
ConcatMeanAxis0(arrs) ==
    LET k == arrs[1].shape[2]
        all == LET RECURSIVE Cat(_)
                   Cat(r) == IF r = <<>> THEN <<>> ELSE Head(r).data \o Cat(Tail(r))
               IN  Cat(arrs)
        m == Len(all) \div k
    IN  Arr1([c \in 1..k |-> QMean([r \in 1..m |-> all[(r - 1) * k + c]])])

(***************************************************************************)
(* Feature-scoring modes are strings, modelled as character sequences.     *)
(***************************************************************************)
\* fnmatch.fnmatch(name, pat) for patterns of literal characters and '*'
RECURSIVE fnmatch(_, _)
fnmatch(name, pat) ==
    IF pat = <<>> THEN name = <<>>
    ELSE IF Head(pat) = "*"
         THEN fnmatch(name, Tail(pat)) \/ (name # <<>> /\ fnmatch(Tail(name), pat))
         ELSE name # <<>> /\ Head(name) = Head(pat) /\ fnmatch(Tail(name), Tail(pat))

ModeEmpty   == <<>>
ModeCoef    == <<"c", "o", "e", "f">>
ModeCoefAbs == <<"c", "o", "e", "f", "_", "a", "b", "s">>
ModeUfs     == <<"u", "f", "s">>
ModeForward == <<"f", "o", "r", "w", "a", "r", "d">>
ModeFscore  == <<"f", "s", "c", "o", "r", "e">>
Modes == {ModeEmpty, ModeCoef, ModeCoefAbs, ModeUfs, ModeForward, ModeFscore}

\* match = 'coef_' if self.fs in ['coef', 'forward'] else 'scores_'
MatchAttr(mode) == IF mode \in {ModeCoef, ModeForward} THEN "coef_" ELSE "scores_"

\* any(fnmatch(self.fs, typ) for typ in ['coef*', 'ufs'])
StoresDirectly(mode) ==
    \/ fnmatch(mode, <<"c", "o", "e", "f", "*">>)
    \/ fnmatch(mode, <<"u", "f", "s">>)

(***************************************************************************)
(* MvpResults._update_voxel_values, first half: what a pipeline yields.    *)
(* A step is [attrs, coef_, scores_, estimators_, support]: attrs names    *)
(* the attributes the step object has.                                     *)
(***************************************************************************)
NoneIdx == [given |-> FALSE, mask |-> <<>>]
Idx(m) == [given |-> TRUE, mask |-> m]

HasAttr(step, a) == a \in step.attrs
GetAttr(step, a) == IF a = "coef_" THEN step.coef_ ELSE step.scores_

\* [x for step in steps if cond(step)]
StepsWith(steps, a) ==
    LET Has(step) == HasAttr(step, a) IN SelectSeq(steps, Has)

ErrNoAttr   == "ValueError: Found no attribute anywhere in the pipeline!"
ErrManyAttr == "ValueError: Found more than one attribute in the pipeline!"
ErrSupport  == "ValueError: Found more than one attribute in pipeline!"
ErrShape    == "ValueError: shape mismatch"
ConfigErrors == {ErrNoAttr, ErrManyAttr, ErrSupport}

PickValFirst(steps, mode) ==
    LET match == MatchAttr(mode)
        val == StepsWith(steps, match)
        ensemble == StepsWith(steps, "estimators_")
    IN  IF Len(val) >= 1 THEN [err |-> "none", val |-> GetAttr(val[1], match)]
        ELSE IF Len(ensemble) >= 1
        THEN [err |-> "none", val |-> ConcatMeanAxis0(ensemble[1].estimators_)]
        ELSE [err |-> ErrNoAttr, val |-> Arr1(<<>>)]

\* lines 110-127: the single step exposing the matched attribute, or the mean
\* coefficient of the single ensemble
PickVal(steps, mode) ==
    LET match == MatchAttr(mode)
        val == StepsWith(steps, match)
        ensemble == StepsWith(steps, "estimators_")
    IN  IF Len(val) = 1 THEN [err |-> "none", val |-> GetAttr(val[1], match)]
        ELSE IF Len(val) = 0 /\ Len(ensemble) = 1
        THEN [err |-> "none", val |-> ConcatMeanAxis0(ensemble[1].estimators_)]
        ELSE IF Len(val) = 0 THEN [err |-> ErrNoAttr, val |-> Arr1(<<>>)]
        ELSE [err |-> ErrManyAttr, val |-> Arr1(<<>>)]

PickIdxFirst(steps, val, idx, nfeat) ==
    IF Size(val) # nfeat /\ ~idx.given
    THEN LET sup == StepsWith(steps, "get_support")
         IN  IF Len(sup) >= 1 THEN [err |-> "none", idx |-> Idx(sup[1].support)]
             ELSE [err |-> ErrSupport, idx |-> idx]
    ELSE [err |-> "none", idx |-> idx]

\* lines 129-138: the support of the single selector step when the sizes
\* differ and no index was passed
PickIdx(steps, val, idx, nfeat) ==
    IF Size(val) # nfeat /\ ~idx.given
    THEN LET sup == StepsWith(steps, "get_support")
         IN  IF Len(sup) = 1 THEN [err |-> "none", idx |-> Idx(sup[1].support)]
             ELSE [err |-> ErrSupport, idx |-> idx]
    ELSE [err |-> "none", idx |-> idx]

\* lines 104-140: the values and the index the second half works with
Extract(values, idx, mode, nfeat) ==
    LET v == IF values.kind = "GridSearchCV" THEN values.best_estimator_ ELSE values
    IN  IF v.kind = "Pipeline"
        THEN LET p == PickVal(v.steps, mode)
             IN  IF p.err # "none" THEN [err |-> p.err, val |-> p.val, idx |-> idx]
                 ELSE LET q == PickIdx(v.steps, p.val, idx, nfeat)
                      IN  [err |-> q.err, val |-> p.val, idx |-> q.idx]
        ELSE [err |-> "none", val |-> v.arr, idx |-> idx]

(***************************************************************************)
(* The pattern container's data.                                           *)
(***************************************************************************)
\* mvp.X: NSamples x NVox
MvpX == [s \in 1..NSamples |-> [v \in 1..NVox |-> (s * s + v) % 4]]

\* mvp.y with c classes, and a regression target
YCyc(c) == [s \in 1..NSamples |-> (s - 1) % c]
YReg == [s \in 1..NSamples |-> s]

\* self.n_class = np.unique(self.mvp.y).size (classification variant only)
n_class == Len(Unique(y))

\* The true positions of a boolean mask, in order.
Where(m) == LET S == {v \in 1..Len(m) : m[v]} IN [k \in 1..Cardinality(S) |-> Kth(S, k)]

\* The columns voxel_values[i, idx] addresses: idx = None is numpy's newaxis
\* and addresses the whole row.
Columns(idx) == IF idx.given THEN Where(idx.mask) ELSE [v \in 1..NVox |-> v]

\* np.cov(X.T).dot(W) for X = self.X[:, cols] and W of length Len(cols):
\* cov[j][l] = (n * sum(x_j x_l) - sum(x_j) sum(x_l)) / (n (n - 1))
Haufe(cols, W) ==
    LET n == NSamples
        col(j) == [s \in 1..n |-> MvpX[s][cols[j]]]
        covnum(j, l) == n * SumSeq([s \in 1..n |-> col(j)[s] * col(l)[s]])
                        - SumSeq(col(j)) * SumSeq(col(l))
    IN  [j \in Pos(cols) |->
            QSum([l \in Pos(cols) |-> QMul(Q(covnum(j, l), n * (n - 1)), W[l])])]

\* self.voxel_values[self.iter, idx] = v: v is a scalar or has one entry per
\* addressed column
Assign(row, cols, v) ==
    IF v.shape = <<>>
    THEN [err |-> "none",
          row |-> [c \in 1..NVox |-> IF c \in Range(cols) THEN v.data[1] ELSE row[c]]]
    ELSE IF v.shape = <<Len(cols)>>
    THEN [err |-> "none",
          row |-> [c \in 1..NVox |->
                     IF c \in Range(cols)
                     THEN v.data[CHOOSE k \in Pos(cols) : cols[k] = c]
                     ELSE row[c]]]
    ELSE [err |-> ErrShape, row |-> row]

\* lines 148-163, the 'forward' branch.  W and X[:, idx] must agree in shape
\* for W.T.dot(X.T); self.n_class exists in the classification variant only;
\* np.linalg.pinv(np.cov(s)) is given a 0-d array when W is 1-D.
Forward(row, idx, v, kind, nclass) ==
    LET cols == Columns(idx)
        fail(e) == [err |-> e, row |-> row]
    IN  IF ~idx.given
        THEN IF v.shape = <<>> /\ kind = "regression" THEN fail("AttributeError")
             ELSE fail(ErrShape)
        ELSE IF v.shape = <<>>
        THEN IF kind = "regression" THEN fail("AttributeError")
             ELSE IF Len(cols) # 1 THEN fail(ErrShape)
             ELSE IF nclass < 3 THEN Assign(row, cols, Arr1(Haufe(cols, v.data)))
             ELSE fail("LinAlgError")
        ELSE IF v.shape # <<Len(cols)>> THEN fail(ErrShape)
        ELSE IF kind = "regression" THEN fail("AttributeError")
        ELSE IF nclass < 3 THEN Assign(row, cols, Arr1(Haufe(cols, v.data)))
        ELSE fail("LinAlgError")

\* lines 142-163: the fold's n_vox and its row of voxel_values
Store(val, idx, mode, kind, nclass, row) ==
    LET v == Squeeze(val)
        r == IF StoresDirectly(mode) THEN Assign(row, Columns(idx), v)
             ELSE IF mode = ModeForward THEN Forward(row, idx, v, kind, nclass)
             ELSE [err |-> "none", row |-> row]
    IN  [err |-> r.err, size |-> QInt(Size(v)), row |-> r.row]

UpdateVoxelValuesNextRow(values, idx, i) ==
    LET e == Extract(values, idx, fs, NVox)
    IN  IF e.err # "none"
        THEN [err |-> e.err, n_vox |-> n_vox, voxel_values |-> voxel_values]
        ELSE IF i + 2 > n_iter
        THEN [err |-> "IndexError", n_vox |-> n_vox, voxel_values |-> voxel_values]
        ELSE LET st == Store(e.val, e.idx, fs, variant, n_class, voxel_values[i + 2])
             IN  [err |-> st.err,
                  n_vox |-> [n_vox EXCEPT ![i + 2] = st.size],
                  voxel_values |-> [voxel_values EXCEPT ![i + 2] = st.row]]

\* _update_voxel_values(values, idx) at fold counter i: the exception that ends
\* it, and self.n_vox and self.voxel_values after it.
UpdateVoxelValues(values, idx, i) ==
    LET e == Extract(values, idx, fs, NVox)
    IN  IF e.err # "none"
        THEN [err |-> e.err, n_vox |-> n_vox, voxel_values |-> voxel_values]
        ELSE LET st == Store(e.val, e.idx, fs, variant, n_class, voxel_values[i + 1])
             IN  [err |-> st.err,
                  n_vox |-> [n_vox EXCEPT ![i + 1] = st.size],
                  voxel_values |-> [voxel_values EXCEPT ![i + 1] = st.row]]

(***************************************************************************)
(* MvpResultsClassification / MvpResultsRegression                         *)
(***************************************************************************)
NoneValues == [kind |-> "None"]
Array(a) == [kind |-> "ndarray", arr |-> a]
Pipeline(steps) == [kind |-> "Pipeline", steps |-> steps]
GridSearchCV(p) == [kind |-> "GridSearchCV", best_estimator_ |-> p]

\* self.y[test_idx]
YTrue(test_idx) == [k \in Pos(test_idx) |-> y[test_idx[k]]]

\* self.confmat[i, :, :] = cm: cm must have the slot's shape, or be 1 x 1 and
\* broadcast
SetConfmat(slot, cm) ==
    IF Len(cm) = Len(slot) THEN [err |-> "none", slot |-> cm]
    ELSE IF Len(cm) = 1
    THEN [err |-> "none", slot |-> [a \in Pos(slot) |-> [b \in Pos(slot) |-> cm[1][1]]]]
    ELSE [err |-> ErrShape, slot |-> slot]

SetSlotPrev(arr, i, value) == [arr EXCEPT ![IF i = 0 THEN Len(arr) ELSE i] = value]

\* self.accuracy[i] = value, and the like: slot i of a per-fold array
SetSlot(arr, i, value) == [arr EXCEPT ![i + 1] = value]

IterAfterAlways(i, e) == i + 1

\* self.iter += 1 is the last statement of update: an exception skips it
IterAfter(i, e) == IF e = "none" THEN i + 1 ELSE i

\* What the history variables record of a call.
Called(test_idx, y_pred, values, idx) ==
    /\ call' = [test_idx |-> test_idx, y_pred |-> y_pred, values |-> values,
                idx |-> idx, i |-> iter]
    /\ log' = IF err' = "none"
              THEN Append(log, [test_idx |-> test_idx, y_pred |-> y_pred,
                                given |-> values.kind # "None"])
              ELSE log

\* __init__ of either variant
NewResults(kind, mode, n, labels) ==
    /\ variant = kind /\ fs = mode /\ n_iter = n /\ y = labels
    /\ iter = 0
    /\ accuracy = IF kind = "classification" THEN Zeros(n) ELSE <<>>
    /\ recall = IF kind = "classification" THEN Zeros(n) ELSE <<>>
    /\ precision = IF kind = "classification" THEN Zeros(n) ELSE <<>>
    /\ confmat = IF kind = "classification"
                 THEN [k \in 1..n |-> Zeros2(Len(Unique(labels)), Len(Unique(labels)))]
                 ELSE <<>>
    /\ R2 = IF kind = "regression" THEN Zeros(n) ELSE <<>>
    /\ mse = IF kind = "regression" THEN [scalar |-> FALSE, data |-> Zeros(n)]
             ELSE [scalar |-> FALSE, data |-> <<>>]
    /\ n_vox = Zeros(n)
    /\ voxel_values = Zeros2(n, NVox)
    /\ df = NoReport /\ printed = NoReport /\ err = "none" /\ call = NoCall
    /\ log = <<>>

\* MvpResultsClassification.update
UpdateClassification(test_idx, y_pred, values, idx) ==
    /\ variant = "classification"
    /\ LET i == iter
           y_true == YTrue(test_idx)
       IN  IF i >= n_iter
           THEN \* self.accuracy[i] = ... is out of bounds
                /\ err' = "IndexError"
                /\ UNCHANGED <<accuracy, precision, recall, confmat, n_vox,
                               voxel_values, iter>>
           ELSE LET cm == SetConfmat(confmat[i + 1], confusion_matrix(y_true, y_pred))
                    vx == IF cm.err = "none" /\ values.kind # "None"
                          THEN UpdateVoxelValues(values, idx, i)
                          ELSE [err |-> cm.err, n_vox |-> n_vox,
                                voxel_values |-> voxel_values]
                IN  /\ accuracy' = SetSlot(accuracy, i, accuracy_score(y_true, y_pred))
                    /\ precision' = SetSlot(precision, i, precision_score(y_true, y_pred))
                    /\ recall' = SetSlot(recall, i, recall_score(y_true, y_pred))
                    /\ confmat' = SetSlot(confmat, i, cm.slot)
                    /\ n_vox' = vx.n_vox
                    /\ voxel_values' = vx.voxel_values
                    /\ err' = vx.err
                    /\ iter' = IterAfter(i, vx.err)
    /\ Called(test_idx, y_pred, values, idx)
    /\ UNCHANGED <<variant, fs, n_iter, y, R2, mse, df, printed>>
    /\ UNCHANGED <<roiVars, cacheVars>>

\* MvpResultsRegression.update
UpdateRegression(test_idx, y_pred, values, idx) ==
    /\ variant = "regression"
    /\ LET i == iter
           y_true == YTrue(test_idx)
       IN  IF i >= n_iter
           THEN \* self.R2[i] = ... is out of bounds
                /\ err' = "IndexError"
                /\ UNCHANGED <<R2, mse, n_vox, voxel_values, iter>>
           ELSE LET vx == IF values.kind # "None"
                          THEN UpdateVoxelValues(values, idx, i)
                          ELSE [err |-> "none", n_vox |-> n_vox,
                                voxel_values |-> voxel_values]
                IN  /\ R2' = SetSlot(R2, i, r2_score(y_true, y_pred))
                    /\ mse' = [scalar |-> TRUE,
                               data |-> <<mean_squared_error(y_true, y_pred)>>]
                    /\ n_vox' = vx.n_vox
                    /\ voxel_values' = vx.voxel_values
                    /\ err' = vx.err
                    /\ iter' = IterAfter(i, vx.err)
    /\ Called(test_idx, y_pred, values, idx)
    /\ UNCHANGED <<variant, fs, n_iter, y, accuracy, precision, recall, confmat,
                   df, printed>>
    /\ UNCHANGED <<roiVars, cacheVars>>

\* pd.DataFrame({...}): a scalar among the columns is repeated on every row
Column(a, n) == IF a.scalar THEN [k \in 1..n |-> a.data[1]] ELSE a.data

\* df.describe().loc[['mean']] (the 'std' row is a square root and is not
\* modelled)
Means(table) == [c \in DOMAIN table |-> QMean(table[c])]

\* self.confmat.sum(axis=0)
ConfmatSum(cms) ==
    IF cms = <<>> THEN <<>>
    ELSE [a \in Pos(cms[1]) |-> [b \in Pos(cms[1]) |->
            QSum([k \in Pos(cms) |-> cms[k][a][b]])]]

\* compute_scores of either variant
ComputeScores ==
    /\ variant \in {"classification", "regression"}
    /\ df' = IF variant = "classification"
             THEN [Accuracy |-> accuracy, Precision |-> precision,
                   Recall |-> recall, n_voxels |-> n_vox]
             ELSE [R2 |-> R2, MSE |-> Column(mse, n_iter), n_voxels |-> n_vox]
    /\ printed' = IF variant = "classification"
                  THEN [mean |-> Means(df'), confmat |-> ConfmatSum(confmat)]
                  ELSE [mean |-> Means(df'), confmat |-> <<>>]
    /\ UNCHANGED <<variant, fs, n_iter, y, iter, accuracy, precision, recall,
                   confmat, R2, mse, n_vox, voxel_values, err, call, log>>
    /\ UNCHANGED <<roiVars, cacheVars>>

(***************************************************************************)
(* Inputs.                                                                 *)
(***************************************************************************)
AllSamples == [k \in 1..NSamples |-> k]

\* Test folds: the first sample, the first two samples, all samples.
TestFolds == {<<1>>, <<1, 2>>, AllSamples}

\* Predictions for a fold: all correct, or the first label throughout; for a
\* regression all exact, or the constant 2.
Predictions(test_idx) ==
    LET yt == YTrue(test_idx)
    IN  IF variant = "classification"
        THEN {yt, [k \in Pos(yt) |-> y[1]]}
        ELSE {yt, [k \in Pos(yt) |-> 2]}

\* Selector supports over the whole brain: all voxels but the second, all but
\* the first.
SelMask == [v \in 1..NVox |-> v # 2]
VarMask == [v \in 1..NVox |-> v # 1]

Step(attrs, coef, scores, estimators, support) ==
    [attrs |-> attrs, coef_ |-> coef, scores_ |-> scores,
     estimators_ |-> estimators, support |-> support]
NoArr == Arr1(<<>>)

\* Pipeline steps: a scaler; two feature selectors (one with scores_); linear
\* classifiers fitted on all voxels and on the selected voxels (coef_ of shape
\* (1, k)); a bagging ensemble of two linear classifiers.
Scaler == Step({}, NoArr, NoArr, <<>>, <<>>)
SelectKBest == Step({"scores_", "get_support"}, NoArr,
                    Arr1([v \in 1..NVox |-> QInt(v)]), <<>>, SelMask)
VarThr == Step({"get_support"}, NoArr, NoArr, <<>>, VarMask)
SvcFull == Step({"coef_"}, Arr2(<<[v \in 1..NVox |-> QInt(v + 3)]>>), NoArr, <<>>, <<>>)
SvcSel == Step({"coef_"}, Arr2(<<[v \in 1..(NVox - 1) |-> QInt(-v)]>>), NoArr, <<>>, <<>>)
Bagging == Step({"estimators_"}, NoArr, NoArr,
                << Arr2(<<[v \in 1..(NVox - 1) |-> QInt(v)]>>),
                   Arr2(<<[v \in 1..(NVox - 1) |-> QInt(2)]>>) >>, <<>>)

Pipelines ==
    { Pipeline(<<Scaler, SvcFull>>),
      Pipeline(<<SelectKBest, SvcSel>>),
      Pipeline(<<Scaler, SvcSel>>),
      Pipeline(<<VarThr, SelectKBest, SvcSel>>),
      Pipeline(<<SvcFull, SvcSel>>),
      Pipeline(<<Scaler>>),
      Pipeline(<<SelectKBest, Bagging>>),
      Pipeline(<<Bagging, Bagging>>),
      Pipeline(<<SelectKBest, SelectKBest>>) }

Arrays ==
    { Array(Arr1([v \in 1..NVox |-> QInt(v)])),
      Array(Arr1([v \in 1..(NVox - 1) |-> QInt(v + 5)])),
      Array(Arr1(<<QInt(9)>>)) }

ValueInputs ==
    {NoneValues} \cup Arrays \cup Pipelines
        \cup {GridSearchCV(Pipeline(<<SelectKBest, SvcSel>>)),
              GridSearchCV(Pipeline(<<SvcFull, SvcSel>>))}
IdxInputs == {NoneIdx, Idx(SelMask), Idx(VarMask)}

PartialArray == Array(Arr1([v \in 1..(NVox - 1) |-> QInt(v + 5)]))

(***************************************************************************)
(* SpecFolds: the fold bookkeeping of both variants on several folds and   *)
(* predictions, with feature values absent or a plain array.               *)
(***************************************************************************)
InitFolds ==
    /\ \E kind \in {"classification", "regression"}, n \in 0..MaxIter :
         \E labels \in (IF kind = "classification" THEN {YCyc(2), YCyc(3)} ELSE {YReg}) :
            NewResults(kind, ModeCoef, n, labels)
    /\ RoiIdle /\ CacheIdle

NextFolds ==
    \/ \E test_idx \in TestFolds : \E y_pred \in Predictions(test_idx) :
          \E values \in {NoneValues, PartialArray} :
             \/ UpdateClassification(test_idx, y_pred, values, Idx(SelMask))
             \/ UpdateRegression(test_idx, y_pred, values, Idx(SelMask))
    \/ ComputeScores

SpecFolds == InitFolds /\ [][NextFolds]_vars

(***************************************************************************)
(* SpecPipe: one call of update on an aggregator of one fold, with feature *)
(* values of every kind in every mode.                                     *)
(***************************************************************************)
TwoPredictions == {YTrue(AllSamples), [k \in 1..NSamples |-> y[1]]}

InitPipe ==
    /\ \E kind \in {"classification", "regression"}, mode \in Modes :
         \E labels \in (IF kind = "classification" THEN {YCyc(2), YCyc(3)} ELSE {YReg}) :
            NewResults(kind, mode, 1, labels)
    /\ RoiIdle /\ CacheIdle

NextPipe ==
    \E y_pred \in TwoPredictions : \E values \in ValueInputs, idx \in IdxInputs :
       \/ UpdateClassification(AllSamples, y_pred, values, idx)
       \/ UpdateRegression(AllSamples, y_pred, values, idx)

SpecPipe == InitPipe /\ [][NextPipe]_vars

(***************************************************************************)
(* Spec: several folds, with feature values that are stored, rejected or   *)
(* absent.                                                                 *)
(***************************************************************************)
FoldValues ==
    { NoneValues, PartialArray,
      Pipeline(<<SelectKBest, SvcSel>>),
      Pipeline(<<SvcFull, SvcSel>>),
      Pipeline(<<Scaler, SvcSel>>) }

Init ==
    /\ \E kind \in {"classification", "regression"}, n \in 1..MaxIter :
         \E mode \in {ModeEmpty, ModeCoef, ModeForward} :
            NewResults(kind, mode, n, IF kind = "classification" THEN YCyc(2) ELSE YReg)
    /\ RoiIdle /\ CacheIdle

Next ==
    \E y_pred \in TwoPredictions : \E values \in FoldValues, idx \in {NoneIdx, Idx(SelMask)} :
       \/ UpdateClassification(AllSamples, y_pred, values, idx)
       \/ UpdateRegression(AllSamples, y_pred, values, idx)

Spec == Init /\ [][Next]_vars

(***************************************************************************)
(* Claims about the fold bookkeeping (C2 under Spec, C3 and C4 under       *)
(* SpecFolds).                                                             *)
(***************************************************************************)
\* Some update call has been made.
Called1 == call.i >= 0

\* C2 as stated: the fold counter stays within 0..n, no more than n updates
\* complete, and every update call, returning or raising, advances the counter
\* by exactly one.
C2_EveryCallAdvances ==
    /\ 0 <= iter /\ iter <= n_iter
    /\ Len(log) <= n_iter
    /\ Called1 => iter = call.i + 1

\* C2 amended: the fold counter stays within 0..n and equals the number of
\* update calls that returned; a call that returns advances it by exactly one
\* and a call that raises leaves it unchanged.
C2_ReturningCallsAdvance ==
    /\ 0 <= iter /\ iter <= n_iter
    /\ Len(log) = iter
    /\ Called1 => iter = call.i + (IF err = "none" THEN 1 ELSE 0)

\* A call with feature values raised a configuration error between two folds:
\* one fold is complete, the counter is where the failing call found it, and
\* there is room for more folds.
C2_Witness ==
    /\ Called1 /\ err \in ConfigErrors
    /\ iter = 1 /\ call.i = 1 /\ n_iter >= 2

\* The value a returned call computed for a column of the report.
Computed(k, column) ==
    LET yt == YTrue(log[k].test_idx)
        yp == log[k].y_pred
    IN  CASE column = "Accuracy" -> accuracy_score(yt, yp)
          [] column = "Precision" -> precision_score(yt, yp)
          [] column = "Recall" -> recall_score(yt, yp)
          [] column = "R2" -> r2_score(yt, yp)
          [] column = "MSE" -> mean_squared_error(yt, yp)
          [] column = "n_voxels" -> IF log[k].given THEN QInt(Size(PartialArray.arr))
                                    ELSE Zero

\* C3: a report computed after exactly n returned updates has n rows, and row
\* k of every metric column holds what the k-th update computed.
C3_ReportRowsAreFolds ==
    [][ (df' # df /\ iter = n_iter /\ Len(log) = n_iter) =>
          \A column \in DOMAIN df' :
             /\ Len(df'[column]) = n_iter
             /\ \A k \in 1..n_iter : df'[column][k] = Computed(k, column) ]_vars

\* The n_class x n_class matrix of a fold: entry (a, b) counts the test
\* samples with true label a and predicted label b.
FoldConfmat(k) ==
    LET labels == Unique(y)
        yt == YTrue(log[k].test_idx)
        yp == log[k].y_pred
    IN  [a \in Pos(labels) |-> [b \in Pos(labels) |->
            QInt(Count({s \in Pos(yt) : yt[s] = labels[a] /\ yp[s] = labels[b]}))]]

\* C4: in the classification variant the matrix stored for every completed
\* fold is the fold's n_class x n_class matrix of counts, also when the fold
\* covers fewer than n_class labels, and the reported aggregate is their sum.
C4_ConfmatPerFold ==
    variant = "classification" =>
        /\ \A k \in 1..Len(log) : confmat[k] = FoldConfmat(k)
        /\ Len(log) = n_iter /\ n_iter > 0 =>
              ConfmatSum(confmat) = ConfmatSum([k \in 1..n_iter |-> FoldConfmat(k)])

(***************************************************************************)
(* What the claims say of a call c = [test_idx, y_pred, values, idx, i],   *)
(* stated on the call's arguments.                                         *)
(***************************************************************************)
GivenValues(c) == c.values.kind # "None"
CallPipe(c) == IF c.values.kind = "GridSearchCV" THEN c.values.best_estimator_
               ELSE c.values
IsPipeCall(c) == GivenValues(c) /\ CallPipe(c).kind = "Pipeline"
Exposing(c, a) == {k \in 1..Len(CallPipe(c).steps) : a \in CallPipe(c).steps[k].attrs}
Probed == IF fs = ModeCoef \/ fs = ModeForward THEN "coef_" ELSE "scores_"
NMatch(c) == Cardinality(Exposing(c, Probed))
NEnsemble(c) == Cardinality(Exposing(c, "estimators_"))
NSelector(c) == Cardinality(Exposing(c, "get_support"))

\* The lookup of the matched attribute finds a value.
Found(c) == NMatch(c) = 1 \/ (NMatch(c) = 0 /\ NEnsemble(c) = 1)

\* The entries of the value found: the single matching step's attribute, or
\* the mean of the coefficients of the single ensemble's members.
FoundValue(c) ==
    LET steps == CallPipe(c).steps
    IN  IF NMatch(c) = 1
        THEN LET st == steps[CHOOSE k \in Exposing(c, Probed) : TRUE]
             IN  IF Probed = "coef_" THEN st.coef_.data ELSE st.scores_.data
        ELSE LET members == steps[CHOOSE k \in Exposing(c, "estimators_") : TRUE].estimators_
             IN  [v \in 1..Len(members[1].data) |->
                    QMul(QSum([m \in Pos(members) |-> members[m].data[v]]),
                         Q(1, Len(members)))]

CallValue(c) == IF IsPipeCall(c) THEN FoundValue(c) ELSE c.values.arr.data

TruePositions(m) == {v \in 1..Len(m) : m[v]}

\* The selector lookup applies: a pipeline, no explicit index, sizes differ.
NeedsSelector(c) == IsPipeCall(c) /\ ~c.idx.given /\ Len(CallValue(c)) # NVox

\* The columns the call's index addresses.
CallColumns(c) ==
    IF c.idx.given THEN TruePositions(c.idx.mask)
    ELSE IF NeedsSelector(c) /\ NSelector(c) = 1
    THEN TruePositions(CallPipe(c).steps[CHOOSE k \in Exposing(c, "get_support") : TRUE].support)
    ELSE 1..NVox

\* The entries of a row at a set of columns, in column order.
Entries(row, cols) == [k \in 1..Cardinality(cols) |-> row[Kth(cols, k)]]
ZeroOutside(row, cols) == \A v \in 1..NVox : v \notin cols => row[v] = Zero

\* The last call got as far as the feature values.
ReachedValues == Called1 /\ GivenValues(call) /\ call.i < n_iter /\ err # "IndexError"

(***************************************************************************)
(* Claims about one call with feature values (SpecPipe).                   *)
(***************************************************************************)
\* C5: given a pipeline (or a grid search around one), update raises the
\* attribute lookup's configuration error exactly when two or more steps expose
\* the matched attribute, or none does and the pipeline does not hold exactly
\* one ensemble; otherwise the value it goes on with is the single matching
\* step's attribute or, with no matching step, the mean coefficient of the
\* single ensemble's members.
C5_AttributeLookup ==
    (ReachedValues /\ IsPipeCall(call)) =>
        /\ err \in {ErrNoAttr, ErrManyAttr} <=>
              (NMatch(call) >= 2 \/ (NMatch(call) = 0 /\ NEnsemble(call) # 1))
        /\ err = ErrManyAttr => NMatch(call) >= 2
        /\ err = "none" =>
              /\ n_vox[call.i + 1] = QInt(Len(FoundValue(call)))
              /\ StoresDirectly(fs) =>
                    Entries(voxel_values[call.i + 1], CallColumns(call)) = FoundValue(call)

\* The mean coefficient of a bagging ensemble was stored: no step exposed
\* coef_, one step was an ensemble.
C5_Witness ==
    /\ ReachedValues /\ IsPipeCall(call) /\ err = "none"
    /\ fs = ModeCoef
    /\ NMatch(call) = 0 /\ NEnsemble(call) = 1
    /\ voxel_values[1][1] = <<3, 2>>

\* C6: with a pipeline, no explicit index and a value whose size differs from
\* the feature count, the index is the support of the single selector step;
\* with several selectors or none update raises the selector lookup's
\* configuration error and the voxel-value map stays as it was.  With equal
\* sizes or an explicit index no selector is looked up and that error is not
\* raised.
C6_SelectorLookup ==
    (ReachedValues /\ IsPipeCall(call) /\ Found(call)) =>
        LET row == voxel_values[call.i + 1]
            support == TruePositions(
                CallPipe(call).steps[CHOOSE k \in Exposing(call, "get_support") : TRUE].support)
        IN  /\ (NeedsSelector(call) /\ NSelector(call) # 1) =>
                  /\ err = ErrSupport
                  /\ voxel_values = Zeros2(n_iter, NVox)
            /\ (NeedsSelector(call) /\ NSelector(call) = 1) =>
                  /\ err # ErrSupport
                  /\ err = "none" => ZeroOutside(row, support)
                  /\ (err = "none" /\ StoresDirectly(fs)) =>
                        Entries(row, support) = FoundValue(call)
            /\ ~NeedsSelector(call) =>
                  /\ err # ErrSupport
                  /\ (err = "none" /\ StoresDirectly(fs)) =>
                        /\ Entries(row, CallColumns(call)) = FoundValue(call)
                        /\ ZeroOutside(row, CallColumns(call))
                        /\ CallColumns(call) =
                              IF call.idx.given THEN TruePositions(call.idx.mask) ELSE 1..NVox

\* A classifier fitted on the selected voxels, behind one selector, no index
\* passed: its coefficients went to the selector's support.
C6_Witness ==
    /\ ReachedValues /\ IsPipeCall(call) /\ err = "none"
    /\ fs = ModeCoef
    /\ NeedsSelector(call) /\ NSelector(call) = 1 /\ NMatch(call) = 1
    /\ voxel_values[1][1] = QInt(-1) /\ voxel_values[1][2] = Zero

\* C10: for a pipeline the probed attribute is coef_ in the modes 'coef' and
\* 'forward' and scores_ in every other mode; the values found are stored at
\* the mapped index as they are when the mode matches 'coef*' or 'ufs', stored
\* Haufe-transformed when the mode is 'forward', and not stored in any other
\* mode, where n_voxels of the fold is still recorded.
C10_ModeDispatch ==
    (ReachedValues /\ (IsPipeCall(call) => Found(call))
       /\ (NeedsSelector(call) => NSelector(call) = 1)
       /\ Len(CallValue(call)) = Cardinality(CallColumns(call))) =>
        LET row == voxel_values[call.i + 1]
            cols == CallColumns(call)
            W == CallValue(call)
            direct == \/ (Len(fs) >= 4 /\ SubSeq(fs, 1, 4) = ModeCoef)
                      \/ fs = ModeUfs
        IN  /\ Probed = "coef_" <=> fs \in {ModeCoef, ModeForward}
            /\ direct => err = "none" /\ Entries(row, cols) = W
            /\ fs = ModeForward =>
                  /\ err = "none"
                  /\ Entries(row, cols) = Haufe([k \in 1..Cardinality(cols) |-> Kth(cols, k)], W)
            /\ (~direct /\ fs # ModeForward) =>
                  /\ err = "none"
                  /\ voxel_values = Zeros2(n_iter, NVox)
                  /\ n_vox[call.i + 1] = QInt(Len(W))

(***************************************************************************)
(* Claims about the voxel-value map over several folds (Spec).             *)
(***************************************************************************)
\* C7: the voxel-value map starts all zero; an update at fold counter i changes
\* only row i, and in it only the columns its index addresses; rows of earlier
\* folds stay as they are, and the rows from the current fold counter on are
\* entirely zero.
C7_SparseMap ==
    /\ voxel_values = Zeros2(n_iter, NVox)
    /\ [][ /\ \A r \in 1..n_iter, v \in 1..NVox :
                voxel_values'[r][v] # voxel_values[r][v] =>
                    /\ r = iter + 1
                    /\ call'.i = iter
                    /\ v \in CallColumns(call')
           /\ \A r \in 1..n_iter : r > iter' => voxel_values'[r] = Zeros(NVox)
         ]_vars

\* Two folds stored coefficients at the selected voxels; the voxel between
\* them is zero in both rows.
C7_Witness ==
    /\ iter = 2 /\ fs = ModeCoef
    /\ voxel_values[1][1] # Zero /\ voxel_values[1][2] = Zero
    /\ voxel_values[2][1] # Zero /\ voxel_values[2][2] = Zero
    /\ voxel_values[1] # voxel_values[2]

\* The metrics of a call, as the slots of its fold hold them.
SlotHolds(c, acc, prec, rec, cm, r2, m) ==
    LET yt == YTrue(c.test_idx)
        yp == c.y_pred
        k == c.i + 1
    IN  IF variant = "classification"
        THEN /\ acc[k] = accuracy_score(yt, yp)
             /\ prec[k] = precision_score(yt, yp)
             /\ rec[k] = recall_score(yt, yp)
             /\ cm[k] = confusion_matrix(yt, yp)
        ELSE /\ r2[k] = r2_score(yt, yp)
             /\ m = [scalar |-> TRUE, data |-> <<mean_squared_error(yt, yp)>>]

\* C9: an update at fold counter i < n that ends with a configuration error
\* leaves the fold counter, the voxel-value map and n_vox as they were, with
\* the metric slots of fold i already overwritten by that call's metrics; an
\* update that returns works on the slot the counter names, so the next
\* returning update overwrites slot i and no slot is skipped.
C9_FailedCallKeepsSlot ==
    [][ /\ (err' \in ConfigErrors /\ call'.i = iter) =>
              /\ iter < n_iter
              /\ iter' = iter
              /\ voxel_values' = voxel_values
              /\ n_vox' = n_vox
              /\ SlotHolds(call', accuracy', precision', recall', confmat', R2', mse')
        /\ iter' # iter =>
              /\ err' = "none"
              /\ call'.i = iter /\ iter' = iter + 1
              /\ SlotHolds(call', accuracy', precision', recall', confmat', R2', mse')
      ]_vars

\* A second fold ended with a configuration error after its accuracy had been
\* written to the second slot.
C9_Witness ==
    /\ variant = "classification"
    /\ err \in ConfigErrors
    /\ iter = 1 /\ call.i = 1
    /\ accuracy[2] # Zero
    /\ voxel_values[2] = Zeros(NVox) /\ n_vox[2] = Zero

====
